---- MODULE Spec2Model ----
(***************************************************************************)
(* A model of the Masonry grid controller (class Masonry, a React class    *)
(* component) and of the collaborators it calls.  One action is one React  *)
(* update of the component (setState / new props -> getDerivedStateFrom-   *)
(* Props -> render -> commit of the refs -> componentDidUpdate) or one     *)
(* step of the environment (the DOM, a timer, an animation frame).         *)
(* ScrollContainer and Dropdown, two further components of the library,    *)
(* have a section and a specification of their own.                        *)
(***************************************************************************)
EXTENDS Integers, Sequences, FiniteSets, TLC

VARIABLES
  props,        \* this.props of Masonry
  state,        \* this.state of Masonry
  inst,         \* instance fields: containerHeight, containerOffset, positionStore, maxHeight, refs
  dom,          \* the browser: the grid wrapper's clientWidth, the scroll container
  rafQueue,     \* animation-frame callbacks requested and not yet run (the captured flag of each)
  timers,       \* armed timers: resize debounce, container-measure debounce, scroll handler
  phase,        \* "constructed" | "mounting" | "mounted" | "unmounted" | "pass"
  pendingFetch, \* the setState({isFetching: true}, callback) that fetchMore has queued, if any
  out           \* what the last render produced, and counters of the calls made so far

vars == <<props, state, inst, dom, rafQueue, timers, phase, pendingFetch, out>>

-----------------------------------------------------------------------------
(* Bounds of the model *)

NItems == 2
MaxLen == 2
MaxRaf == 2

-----------------------------------------------------------------------------
(* Values *)

\* null / undefined: a width that is not known yet, a prop that is not given
Undefined == 0 - 1

\* a falsy entry (null) of the items array; real items are 1..NItems
NullItem == 0

Items == 1..NItems

Max(a, b) == IF a > b THEN a ELSE b

\* the clientWidth values the grid wrapper takes
Widths == {4, 8}

\* the scroll positions the scroll container takes
ScrollPositions == {0, 9}

\* item lists: pairwise distinct entries, null entries allowed, at most MaxLen long
ItemLists ==
  { s \in UNION { [1..n -> Items \cup {NullItem}] : n \in 0..MaxLen } :
      \A i, j \in DOMAIN s : i # j => s[i] # s[j] }

\* el.clientHeight of the element rendered for `item` while the grid is `width` wide
ClientHeight(item, width) ==
  IF width = Undefined THEN 2 * item ELSE 2 * item + width \div 8

-----------------------------------------------------------------------------
(* Measurement / position store: an identity-keyed map *)

EmptyStore == [x \in {} |-> 0]

Has(store, item) == item \in DOMAIN store

Get(store, item) == store[item]

Set(store, item, value) ==
  [x \in (DOMAIN store) \cup {item} |-> IF x = item THEN value ELSE store[x]]

-----------------------------------------------------------------------------
(* Column count and the single-column layout strategy *)

\* a variant without the floor of minCols
GetColumnCountThatFit(p, width) == width \div (p.columnWidth + p.gutterWidth)

GetColumnCount(p, width) ==
  Max(width \div (p.columnWidth + p.gutterWidth), p.minCols)

\* a variant that takes the highest index of a smallest entry
MindexLast(heights) ==
  CHOOSE c \in DOMAIN heights :
    /\ \A d \in DOMAIN heights : heights[c] <= heights[d]
    /\ \A d \in DOMAIN heights : heights[d] = heights[c] => c >= d

\* the lowest index of a smallest entry
Mindex(heights) ==
  CHOOSE c \in DOMAIN heights :
    /\ \A d \in DOMAIN heights : heights[c] <= heights[d]
    /\ \A d \in DOMAIN heights : heights[d] = heights[c] => c <= d

\* a variant that leaves the gutter out of the column's running height
RECURSIVE PlaceNoGutter(_, _, _, _, _, _)
PlaceNoGutter(p, store, itemSeq, k, heights, acc) ==
  IF k > Len(itemSeq) THEN acc
  ELSE LET item == itemSeq[k]
           height == Get(store, item)
           col == Mindex(heights)
           position == [top |-> heights[col],
                        left |-> (col - 1) * (p.columnWidth + p.gutterWidth),
                        width |-> p.columnWidth,
                        height |-> height]
       IN PlaceNoGutter(p, store, itemSeq, k + 1,
                        [heights EXCEPT ![col] = @ + height],
                        Append(acc, position))

\* a variant that advances a column by the gutter alone
RECURSIVE PlaceOnTop(_, _, _, _, _, _)
PlaceOnTop(p, store, itemSeq, k, heights, acc) ==
  IF k > Len(itemSeq) THEN acc
  ELSE LET item == itemSeq[k]
           height == Get(store, item)
           col == Mindex(heights)
           position == [top |-> heights[col],
                        left |-> (col - 1) * (p.columnWidth + p.gutterWidth),
                        width |-> p.columnWidth,
                        height |-> height]
       IN PlaceOnTop(p, store, itemSeq, k + 1,
                     [heights EXCEPT ![col] = @ + p.gutterWidth],
                     Append(acc, position))

RECURSIVE Place(_, _, _, _, _, _)
Place(p, store, itemSeq, k, heights, acc) ==
  IF k > Len(itemSeq) THEN acc
  ELSE LET item == itemSeq[k]
           height == Get(store, item)
           col == Mindex(heights)
           position == [top |-> heights[col],
                        left |-> (col - 1) * (p.columnWidth + p.gutterWidth),
                        width |-> p.columnWidth,
                        height |-> height]
       IN Place(p, store, itemSeq, k + 1,
                [heights EXCEPT ![col] = @ + height + p.gutterWidth],
                Append(acc, position))

\* a variant whose columns start at the scroll position of the pass
GetPositionsBelowScroll(p, s, itemSeq) ==
  Place(p, s.measurementStore, itemSeq, 1,
        [c \in 1..GetColumnCount(p, s.width) |-> s.scrollTop], <<>>)

\* getPositions(items): one position per item, in the order given
GetPositions(p, s, itemSeq) ==
  Place(p, s.measurementStore, itemSeq, 1,
        [c \in 1..GetColumnCount(p, s.width) |-> 0], <<>>)

\* a variant that keeps only the positions of the items of this pass
StorePositionsOfPass(store, itemSeq, positions, k) ==
  [i \in {itemSeq[j] : j \in 1..Len(itemSeq)} |->
     positions[CHOOSE j \in 1..Len(itemSeq) : itemSeq[j] = i]]

RECURSIVE StorePositions(_, _, _, _)
StorePositions(store, itemSeq, positions, k) ==
  IF k > Len(itemSeq) THEN store
  ELSE StorePositions(Set(store, itemSeq[k], positions[k]), itemSeq, positions, k + 1)

RECURSIVE MaxBottom(_, _)
MaxBottom(positions, k) ==
  IF k > Len(positions) THEN 0
  ELSE Max(positions[k].top + positions[k].height, MaxBottom(positions, k + 1))

-----------------------------------------------------------------------------
(* The pending-measurement flag, as the constructor and componentDidUpdate   *)
(* compute it, and as getDerivedStateFromProps computes it                   *)

HasPendingMeasurements(items, store) ==
  \E i \in 1..Len(items) : items[i] # NullItem /\ ~Has(store, items[i])

\* a variant that takes any non-empty list for unmeasured
HasPendingAnyItem(items, store) == Len(items) > 0

HasPendingDerived(items, store) ==
  \E i \in 1..Len(items) : ~Has(store, items[i])

\* a variant that does not notice a list that only got shorter
ItemsResetNoShrink(items, stateItems) ==
  \E i \in 1..Len(items) : i > Len(stateItems) \/ items[i] # stateItems[i]

\* a variant without the test for an index past the end of state.items
ItemsResetNoGrow(items, stateItems) ==
  \/ \E i \in 1..Len(items) :
        /\ i <= Len(stateItems)
        /\ \/ items[i] # stateItems[i]
           \/ Len(items) < Len(stateItems)
  \/ Len(items) = 0 /\ Len(stateItems) > 0

\* the cases in which getDerivedStateFromProps takes over props.items and
\* clears isFetching: an index past the end of state.items, an entry that is
\* another object, fewer items than before, or an empty list after a non-empty one
ItemsReset(items, stateItems) ==
  \/ \E i \in 1..Len(items) :
        \/ i > Len(stateItems)
        \/ items[i] # stateItems[i]
        \/ Len(items) < Len(stateItems)
  \/ Len(items) = 0 /\ Len(stateItems) > 0

GetDerivedStateFromProps(p, s) ==
  LET hasPendingMeasurements == HasPendingDerived(p.items, s.measurementStore)
  IN IF ItemsReset(p.items, s.items)
     THEN [s EXCEPT !.hasPendingMeasurements = hasPendingMeasurements,
                    !.items = p.items,
                    !.isFetching = FALSE]
     ELSE IF hasPendingMeasurements # s.hasPendingMeasurements
     THEN [s EXCEPT !.hasPendingMeasurements = hasPendingMeasurements,
                    !.items = p.items]
     ELSE s

-----------------------------------------------------------------------------
(* render *)

\* JavaScript truthiness of an optional number
Truthy(n) == n # Undefined /\ n # 0

\* a variant that forgets to ask for the scroll container
UsesViewportNoContainer(p) == Truthy(p.virtualBufferFactor)

\* scrollContainer && virtualBufferFactor
UsesViewport(p) == p.scrollContainer /\ Truthy(p.virtualBufferFactor)

\* renderMasonryComponent: whether the item at `position` is put in the DOM
RenderMasonryComponent(p, s, I, position) ==
  LET isVisible ==
        IF UsesViewport(p)
        THEN LET virtualBuffer == I.containerHeight * p.virtualBufferFactor
                 offsetScrollPos == s.scrollTop - I.containerOffset
                 viewportTop ==
                   IF Truthy(p.virtualBoundsTop)
                   THEN offsetScrollPos - p.virtualBoundsTop
                   ELSE offsetScrollPos - virtualBuffer
                 viewportBottom ==
                   IF Truthy(p.virtualBoundsBottom)
                   THEN offsetScrollPos + I.containerHeight + p.virtualBoundsBottom
                   ELSE offsetScrollPos + I.containerHeight + virtualBuffer
             IN ~(\/ position.top + position.height < viewportTop
                  \/ position.top > viewportBottom)
        ELSE TRUE
  IN IF p.virtualize THEN isVisible ELSE TRUE

\* a variant that does not gate on pending measurements
FetchItemsIsFetchingOnly(s) == s.isFetching

\* the isFetching prop that render hands to FetchItems
FetchItemsIsFetching(s) == s.isFetching \/ s.hasPendingMeasurements

\* FetchItems.check: ask for more once the viewport nears the end of the content
FetchItemsCheck(isFetching, scrollTop, containerHeight, scrollHeight) ==
  ~isFetching /\ scrollTop + containerHeight >= scrollHeight

\* the number of unmeasured items rendered off-screen in one pass (no
\* multi-column item is configured: _getColumnSpanConfig is not given)
ItemsToMeasureCount(p) == p.minCols

Bump(n) == IF n < 2 THEN n + 1 ELSE n

\* the ref callbacks of the measuring elements: measurementStore.set(item, el.clientHeight)
RECURSIVE MeasureRefs(_, _, _, _)
MeasureRefs(store, itemSeq, width, k) ==
  IF k > Len(itemSeq) THEN store
  ELSE MeasureRefs(Set(store, itemSeq[k], ClientHeight(itemSeq[k], width)),
                   itemSeq, width, k + 1)

Counted(count, itemSeq) ==
  [i \in Items |-> IF \E k \in 1..Len(itemSeq) : itemSeq[k] = i
                   THEN Bump(count[i]) ELSE count[i]]

First(itemSeq, n) == SubSeq(itemSeq, 1, IF Len(itemSeq) < n THEN Len(itemSeq) ELSE n)

IsItem(item) == item # NullItem

\* a variant that applies the slice of the measuring batch to the measured items
ItemsToRenderSliced(p, store) ==
  LET HasMeasurement(item) == item # NullItem /\ Has(store, item)
  IN First(SelectSeq(p.items, HasMeasurement), ItemsToMeasureCount(p))

\* items.filter((item) => item && measurementStore.has(item))
ItemsToRender(p, store) ==
  LET HasMeasurement(item) == item # NullItem /\ Has(store, item)
  IN SelectSeq(p.items, HasMeasurement)

\* a variant that measures the first items whether or not they are measured
ItemsToMeasureAgain(p, store) == First(SelectSeq(p.items, IsItem), ItemsToMeasureCount(p))

\* items.filter((item) => item && !measurementStore.has(item)).slice(0, itemsToMeasureCount)
ItemsToMeasure(p, store) ==
  LET NeedsMeasurement(item) == item # NullItem /\ ~Has(store, item)
  IN First(SelectSeq(p.items, NeedsMeasurement), ItemsToMeasureCount(p))

\* a variant that measures during hydration whatever the layout
HydrationRefsAlways(p, shown) == shown

\* the items whose hydration ref writes a measurement: all of them, unless the
\* layout is flexible
HydrationRefs(p, shown) == IF p.layout # "flexible" THEN shown ELSE <<>>

\* a variant that forgets the largest height seen so far
GridHeightOfPass(positions, maxHeight) ==
  IF Len(positions) > 0 THEN MaxBottom(positions, 1) ELSE 0

\* a variant without the test for an empty list of positions
GridHeightKept(positions, maxHeight) == Max(MaxBottom(positions, 1), maxHeight)

\* the height of the grid: the tallest column, or the largest height seen so far
GridHeight(positions, maxHeight) ==
  IF Len(positions) > 0 THEN Max(MaxBottom(positions, 1), maxHeight) ELSE 0

\* a variant that keeps the height of the last pass
MaxHeightOfPass(positions, maxHeight) == MaxBottom(positions, 1)

\* the itemIdx renderMasonryComponent passes to renderItem for the k-th of
\* itemsToRender: the index, from 0, of the map over itemsToRender
ItemIdx(itemsToRender, k) == k - 1

\* measurementIndex, the itemIdx of the i-th of itemsToMeasure
MeasurementIndex(itemsToRender, i) == Len(itemsToRender) + (i - 1)

\* this.maxHeight after the pass
MaxHeightAfter(positions, maxHeight) ==
  LET height == GridHeight(positions, maxHeight)
  IN IF height > maxHeight \/ Len(positions) = 0 THEN height ELSE maxHeight

\* render followed by the commit of its refs; the result is the component after
\* the commit and, in `fetch`, the setState that fetchMore queued during it
Render(p, s, I, O) ==
  LET store == s.measurementStore
      refs == [I EXCEPT !.gridWrapper = TRUE, !.scrollContainer = p.scrollContainer]
      view == [scrollTop |-> s.scrollTop,
               containerHeight |-> I.containerHeight,
               containerOffset |-> I.containerOffset]
  IN
  IF s.width = Undefined /\ s.hasPendingMeasurements
  THEN \* hydration: every item in normal flow, measured unless layout is flexible
    LET shown == SelectSeq(p.items, IsItem)
        measured == HydrationRefs(p, shown)
    IN [state |-> [s EXCEPT !.measurementStore = MeasureRefs(store, measured, Undefined, 1)],
        inst |-> refs,
        out |-> [O EXCEPT !.mode = "hydrate", !.placed = <<>>, !.positions = <<>>,
                          !.rendered = {shown[k] : k \in 1..Len(shown)},
                          !.measuring = measured, !.height = 0, !.view = view,
                          !.sets = Counted(@, measured),
                          !.setsAtWidth = Counted(@, measured)],
        fetch |-> <<>>]
  ELSE IF s.width = Undefined
  THEN \* an empty div that collects the width
       [state |-> s,
        inst |-> refs,
        out |-> [O EXCEPT !.mode = "probe", !.placed = <<>>, !.positions = <<>>,
                          !.rendered = {}, !.measuring = <<>>, !.height = 0, !.view = view],
        fetch |-> <<>>]
  ELSE \* full layout
    LET itemsToRender == ItemsToRender(p, store)
        itemsToMeasure == ItemsToMeasure(p, store)
        positions == GetPositions(p, s, itemsToRender)
        positionStore == StorePositions(I.positionStore, itemsToRender, positions, 1)
        height == GridHeight(positions, I.maxHeight)
        maxHeight == MaxHeightAfter(positions, I.maxHeight)
        rendered == { itemsToRender[k] : k \in
                        { j \in 1..Len(itemsToRender) :
                            RenderMasonryComponent(p, s, I, Get(positionStore, itemsToRender[j])) } }
        fetchMore ==
          /\ I.scrollContainer
          /\ FetchItemsCheck(FetchItemsIsFetching(s), s.scrollTop,
                             I.containerHeight, height + I.containerOffset)
    IN [state |-> [s EXCEPT !.measurementStore = MeasureRefs(store, itemsToMeasure, s.width, 1)],
        inst |-> [refs EXCEPT !.positionStore = positionStore, !.maxHeight = maxHeight],
        out |-> [O EXCEPT !.mode = "layout", !.placed = itemsToRender,
                          !.positions = positions, !.rendered = rendered,
                          !.measuring = itemsToMeasure, !.height = height, !.view = view,
                          !.sets = Counted(@, itemsToMeasure),
                          !.setsAtWidth = Counted(@, itemsToMeasure),
                          !.gate = IF fetchMore THEN s.isFetching \/ s.hasPendingMeasurements
                                   ELSE @],
        fetch |-> IF fetchMore THEN <<Len(p.items)>> ELSE <<>>]

-----------------------------------------------------------------------------
(* componentDidUpdate *)

NoCount == [i \in Items |-> 0]

\* a variant with the null test inverted
WidthChangedFromUnknown(prevState, s) ==
  prevState.width = Undefined /\ s.width # prevState.width

\* prevState.width != null && this.state.width !== prevState.width
WidthChanged(prevState, s) == prevState.width # Undefined /\ s.width # prevState.width

ComponentDidUpdate(p, prevState, s, I, O, queue) ==
  LET widthChanged == WidthChanged(prevState, s)
      measurementStore == IF widthChanged THEN EmptyStore ELSE s.measurementStore
      positionStore == IF widthChanged THEN EmptyStore ELSE I.positionStore
      hasPendingMeasurements == HasPendingMeasurements(p.items, measurementStore)
      request == \/ hasPendingMeasurements
                 \/ hasPendingMeasurements # s.hasPendingMeasurements
                 \/ prevState.width = Undefined
  IN [state |-> [s EXCEPT !.measurementStore = measurementStore],
      inst |-> [I EXCEPT !.positionStore = positionStore],
      out |-> IF widthChanged THEN [O EXCEPT !.sets = NoCount] ELSE O,
      raf |-> IF request THEN Append(queue, hasPendingMeasurements) ELSE queue]

\* F applied to the value of e, which is computed once
With(e, F(_)) == CHOOSE y \in {F(x) : x \in {e}} : TRUE

\* the bookkeeping of out at the start of an update: the per-width counts
\* start again when the width differs, the request when isFetching is cleared
Bookkeeping(derived, prevState, s) ==
  [out EXCEPT !.setsAtWidth = IF s.width # prevState.width THEN NoCount ELSE @,
              !.outstanding = IF derived.isFetching THEN @ ELSE 0,
              !.lastFrom = IF derived.isFetching THEN @ ELSE 0]

\* one update of the mounted component: getDerivedStateFromProps, render and
\* its commit, componentDidUpdate; prevState is the state before the
\* setState that s carries
UpdateWith(p, prevState, s, I) ==
  With(GetDerivedStateFromProps(p, s), LAMBDA derived :
    With(Render(p, derived, I, Bookkeeping(derived, prevState, s)), LAMBDA r :
      With(ComponentDidUpdate(p, prevState, r.state, r.inst, r.out, rafQueue), LAMBDA d :
        [state |-> d.state, inst |-> d.inst, out |-> d.out, raf |-> d.raf,
         fetch |-> r.fetch])))

Update(p, prevState, s) == UpdateWith(p, prevState, s, inst)

Commit(r) ==
  /\ state' = r.state
  /\ inst' = r.inst
  /\ out' = r.out
  /\ rafQueue' = r.raf
  /\ pendingFetch' = r.fetch
  /\ timers' = [timers EXCEPT !.measure = TRUE]

-----------------------------------------------------------------------------
(* The state after construction *)

\* a measurement store the caller supplies already filled (a remount)
FilledStore == [i \in Items |-> ClientHeight(i, Undefined)]

InitProps(items, layout, scrollContainer, virtualize, factor, top, bottom) ==
  [items |-> items,
   layout |-> layout,
   columnWidth |-> 3,
   gutterWidth |-> 1,
   minCols |-> 1,
   scrollContainer |-> scrollContainer,
   virtualize |-> virtualize,
   virtualBufferFactor |-> factor,
   virtualBoundsTop |-> top,
   virtualBoundsBottom |-> bottom,
   dynamicHeights |-> FALSE]

Constructor(p, measurementStore) ==
  /\ props = p
  /\ state = [gutter |-> p.gutterWidth,
              hasPendingMeasurements |-> HasPendingMeasurements(p.items, measurementStore),
              isFetching |-> FALSE,
              items |-> p.items,
              measurementStore |-> measurementStore,
              scrollTop |-> 0,
              width |-> Undefined]
  /\ inst = [containerHeight |-> 0,
             containerOffset |-> 0,
             positionStore |-> EmptyStore,
             maxHeight |-> 0,
             gridWrapper |-> FALSE,
             scrollContainer |-> FALSE]
  /\ rafQueue = <<>>
  /\ timers = [resize |-> FALSE, measure |-> FALSE, scroll |-> FALSE]
  /\ phase = "constructed"
  /\ pendingFetch = <<>>
  /\ out = [mode |-> "none", placed |-> <<>>, positions |-> <<>>, rendered |-> {},
            measuring |-> <<>>, height |-> 0,
            view |-> [scrollTop |-> 0, containerHeight |-> 0, containerOffset |-> 0],
            sets |-> [i \in Items |-> IF Has(measurementStore, i) THEN 1 ELSE 0],
            setsAtWidth |-> NoCount,
            outstanding |-> 0, gate |-> FALSE, lastFrom |-> 0, forced |-> 0]

InitDom ==
  dom \in [clientWidth : Widths, containerHeight : {2}, containerOffset : {1}, scrollPos : {0}]

Init ==
  /\ InitDom
  /\ \E items \in ItemLists, layout \in {"basic", "flexible"},
        measurementStore \in {EmptyStore, FilledStore} :
       Constructor(InitProps(items, layout, TRUE, TRUE, 1, Undefined, Undefined),
                   measurementStore)

-----------------------------------------------------------------------------
(* Mounting *)

\* the first render and its commit, then componentDidMount up to its setState
Mount ==
  /\ phase = "constructed"
  /\ \E r \in {Render(props, GetDerivedStateFromProps(props, state), inst, out)} :
     LET measured == IF r.inst.scrollContainer
                     THEN [r.inst EXCEPT !.containerHeight = dom.containerHeight,
                                         !.containerOffset = dom.containerOffset]
                     ELSE r.inst
     IN /\ state' = r.state
        /\ inst' = measured
        /\ out' = r.out
  /\ phase' = "mounting"
  /\ UNCHANGED <<props, dom, rafQueue, timers, pendingFetch>>

\* the setState of componentDidMount: scrollTop and the wrapper's width
FlushDidMount ==
  /\ phase = "mounting"
  /\ LET scrollTop == IF inst.scrollContainer THEN dom.scrollPos ELSE state.scrollTop
         width == IF inst.gridWrapper THEN dom.clientWidth ELSE state.width
     IN \E r \in {Update(props, state, [state EXCEPT !.scrollTop = scrollTop, !.width = width])} :
          Commit(r)
  /\ phase' = "mounted"
  /\ UNCHANGED <<props, dom>>

-----------------------------------------------------------------------------
(* Events of the mounted component *)

\* React runs a setState queued during a commit before anything else
Idle == phase = "mounted" /\ pendingFetch = <<>>

\* the host passes a new items prop
ReceiveProps ==
  /\ Idle
  /\ Len(rafQueue) < MaxRaf
  /\ \E items \in ItemLists :
       LET p == [props EXCEPT !.items = items]
           r == Update(p, state, state)
       IN /\ props' = p
          /\ Commit(r)
  /\ UNCHANGED <<dom, phase>>

\* the window is resized: the wrapper gets another width, the debounce is armed
WindowResize ==
  /\ Idle
  /\ \E w \in Widths \ {dom.clientWidth} : dom' = [dom EXCEPT !.clientWidth = w]
  /\ timers' = [timers EXCEPT !.resize = TRUE]
  /\ UNCHANGED <<props, state, inst, rafQueue, phase, pendingFetch, out>>

\* handleResize, RESIZE_DEBOUNCE after the last resize event
HandleResize ==
  /\ Idle
  /\ timers.resize
  /\ Len(rafQueue) < MaxRaf
  /\ LET r == IF inst.gridWrapper
              THEN Update(props, state, [state EXCEPT !.width = dom.clientWidth])
              ELSE [state |-> state, inst |-> inst, out |-> out, raf |-> rafQueue, fetch |-> <<>>]
     IN /\ state' = r.state
        /\ inst' = r.inst
        /\ out' = r.out
        /\ rafQueue' = r.raf
        /\ pendingFetch' = r.fetch
        /\ timers' = [timers EXCEPT !.resize = FALSE, !.measure = inst.gridWrapper \/ @]
  /\ UNCHANGED <<props, dom, phase>>

\* a variant whose scroll event schedules no call of updateScrollPosition
ScrollUnheard ==
  /\ Idle
  /\ props.scrollContainer
  /\ \E y \in ScrollPositions \ {dom.scrollPos} : dom' = [dom EXCEPT !.scrollPos = y]
  /\ timers' = [timers EXCEPT !.measure = TRUE]
  /\ UNCHANGED <<props, state, inst, rafQueue, phase, pendingFetch, out>>

\* the user scrolls the scroll container
Scroll ==
  /\ Idle
  /\ props.scrollContainer
  /\ \E y \in ScrollPositions \ {dom.scrollPos} : dom' = [dom EXCEPT !.scrollPos = y]
  /\ timers' = [timers EXCEPT !.scroll = TRUE]
  /\ UNCHANGED <<props, state, inst, rafQueue, phase, pendingFetch, out>>

\* updateScrollPosition, run by the throttle
UpdateScrollPosition ==
  /\ Idle
  /\ timers.scroll
  /\ inst.scrollContainer
  /\ Len(rafQueue) < MaxRaf
  /\ LET r == Update(props, state, [state EXCEPT !.scrollTop = dom.scrollPos])
     IN /\ state' = r.state
        /\ inst' = r.inst
        /\ out' = r.out
        /\ rafQueue' = r.raf
        /\ pendingFetch' = r.fetch
        /\ timers' = [timers EXCEPT !.scroll = FALSE, !.measure = TRUE]
  /\ UNCHANGED <<props, dom, phase>>

\* measureContainerAsync fires: measureContainer()
MeasureContainerAsync ==
  /\ Idle
  /\ timers.measure
  /\ inst' = IF inst.scrollContainer
             THEN [inst EXCEPT !.containerHeight = dom.containerHeight,
                               !.containerOffset = dom.containerOffset]
             ELSE inst
  /\ timers' = [timers EXCEPT !.measure = FALSE]
  /\ UNCHANGED <<props, state, dom, rafQueue, phase, pendingFetch, out>>

\* the oldest animation-frame callback runs: setState({hasPendingMeasurements})
AnimationFrame ==
  /\ Idle
  /\ rafQueue # <<>>
  /\ \E r \in {Update(props, state, [state EXCEPT !.hasPendingMeasurements = Head(rafQueue)])} :
       Commit([r EXCEPT !.raf = Tail(@)])
  /\ UNCHANGED <<props, dom, phase>>

\* a variant that calls loadItems without setting isFetching
FetchMoreUnflagged ==
  /\ phase = "mounted"
  /\ pendingFetch # <<>>
  /\ \E r \in {Update(props, state, state)} :
       Commit([r EXCEPT !.out.outstanding = Bump(out.outstanding),
                        !.out.lastFrom = pendingFetch[1],
                        !.fetch = <<>>])
  /\ UNCHANGED <<props, dom, phase>>

\* the setState({isFetching: true}) of fetchMore, then its callback loadItems({from})
FetchMore ==
  /\ phase = "mounted"
  /\ pendingFetch # <<>>
  /\ \E r \in {Update(props, state, [state EXCEPT !.isFetching = TRUE])} :
       Commit([r EXCEPT !.out.outstanding = Bump(out.outstanding),
                        !.out.lastFrom = pendingFetch[1]])
  /\ UNCHANGED <<props, dom, phase>>

Next ==
  \/ Mount
  \/ FlushDidMount
  \/ ReceiveProps
  \/ WindowResize
  \/ HandleResize
  \/ Scroll
  \/ UpdateScrollPosition
  \/ MeasureContainerAsync
  \/ AnimationFrame
  \/ FetchMore

Spec == Init /\ [][Next]_vars

-----------------------------------------------------------------------------
(* The virtualizer under every buffer configuration: a fixed, measured list *)

InitVirtual ==
  /\ InitDom
  /\ \E scrollContainer \in BOOLEAN, virtualize \in BOOLEAN, factor \in {0, 1},
        top \in {Undefined, 0, 1}, bottom \in {Undefined, 0, 1} :
       Constructor(InitProps(<<1, 2>>, "basic", scrollContainer, virtualize,
                             factor, top, bottom),
                   FilledStore)

NextVirtual ==
  \/ Mount
  \/ FlushDidMount
  \/ WindowResize
  \/ HandleResize
  \/ Scroll
  \/ UpdateScrollPosition
  \/ MeasureContainerAsync
  \/ AnimationFrame
  \/ FetchMore

SpecVirtual == InitVirtual /\ [][NextVirtual]_vars

-----------------------------------------------------------------------------
(* A fixed item list and a fixed width, every scheduled update eventually run *)

NextFixed ==
  \/ Mount
  \/ FlushDidMount
  \/ Scroll
  \/ UpdateScrollPosition
  \/ MeasureContainerAsync
  \/ AnimationFrame
  \/ FetchMore

SpecFixed ==
  /\ Init
  /\ [][NextFixed]_vars
  /\ WF_vars(Mount)
  /\ WF_vars(FlushDidMount)
  /\ WF_vars(AnimationFrame)
  /\ WF_vars(FetchMore)

-----------------------------------------------------------------------------
(* Dynamic heights: the ResizeObserver callback of the constructor *)

\* the heights the observer reports
NewHeights == {3, 6}

\* a variant that reports a change whenever the item has a position
RecalcHeightsAlways(items, changedItem, newHeight, positionStore, measurementStore) ==
  [changed |-> changedItem # NullItem /\ Has(positionStore, changedItem),
   positionStore |-> positionStore,
   measurementStore |-> measurementStore]

\* recalcHeights: the item's measurement and the height of its position become
\* newHeight, the positions below it in its column move by the difference;
\* no change for an item without a position or with that height already
RecalcHeights(items, changedItem, newHeight, positionStore, measurementStore) ==
  IF \/ changedItem = NullItem
     \/ ~Has(positionStore, changedItem)
     \/ newHeight = 0
  THEN [changed |-> FALSE, positionStore |-> positionStore,
        measurementStore |-> measurementStore]
  ELSE LET position == Get(positionStore, changedItem)
           delta == newHeight - position.height
       IN IF delta = 0
          THEN [changed |-> FALSE, positionStore |-> positionStore,
                measurementStore |-> measurementStore]
          ELSE [changed |-> TRUE,
                positionStore |->
                  [x \in DOMAIN positionStore |->
                     IF x = changedItem THEN [position EXCEPT !.height = newHeight]
                     ELSE IF /\ positionStore[x].left = position.left
                             /\ positionStore[x].top > position.top
                          THEN [positionStore[x] EXCEPT !.top = @ + delta]
                          ELSE positionStore[x]],
                measurementStore |-> Set(measurementStore, changedItem, newHeight)]

\* this.state.items[idx]
ChangedItem(items, idx) == IF idx + 1 \in DOMAIN items THEN items[idx + 1] ELSE NullItem

\* entries.forEach: each entry is reconciled in turn against the stores the
\* entries before it left; acc.changed collects what recalcHeights returned
RECURSIVE ForEachEntry(_, _, _, _)
ForEachEntry(entries, k, items, acc) ==
  IF k > Len(entries) THEN acc
  ELSE LET r == RecalcHeights(items, ChangedItem(items, entries[k].idx), entries[k].height,
                              acc.positionStore, acc.measurementStore)
       IN ForEachEntry(entries, k + 1, items,
                       [positionStore |-> r.positionStore,
                        measurementStore |-> r.measurementStore,
                        changed |-> Append(acc.changed, r.changed)])

\* a variant that forces an update for every entry that changed something
ForceUpdatesPerEntry(changed) == Cardinality({k \in DOMAIN changed : changed[k]})

\* the number of forceUpdate() calls of one invocation: if (triggerUpdate) forceUpdate()
ForceUpdates(changed) == IF \E k \in DOMAIN changed : changed[k] THEN 1 ELSE 0

\* what one invocation can deliver: one entry per observed element, the
\* element identified by the index it was rendered with
ObservedEntries ==
  { e \in UNION { [1..n -> [idx : 0..(MaxLen - 1), height : NewHeights]] : n \in 1..MaxLen } :
      \A i, j \in DOMAIN e : i # j => e[i].idx # e[j].idx }

ResizeObserverCallback(entries) ==
  /\ Idle
  /\ props.dynamicHeights
  /\ Len(rafQueue) < MaxRaf
  /\ out.mode = "layout"
  /\ \A k \in DOMAIN entries :
        /\ entries[k].idx + 1 \in DOMAIN out.placed
        /\ out.placed[entries[k].idx + 1] \in out.rendered
  /\ \E r \in {ForEachEntry(entries, 1, state.items,
                             [positionStore |-> inst.positionStore,
                              measurementStore |-> state.measurementStore,
                              changed |-> <<>>])} :
       LET s == [state EXCEPT !.measurementStore = r.measurementStore]
           I == [inst EXCEPT !.positionStore = r.positionStore]
           n == ForceUpdates(r.changed)
       IN IF n > 0
          THEN \E u \in {UpdateWith(props, s, s, I)} :
                 Commit([u EXCEPT !.out.forced = n])
          ELSE /\ state' = s
               /\ inst' = I
               /\ out' = [out EXCEPT !.forced = n]
               /\ UNCHANGED <<rafQueue, timers, pendingFetch>>
  /\ UNCHANGED <<props, dom, phase>>

ResizeObserved == \E entries \in ObservedEntries : ResizeObserverCallback(entries)

InitDynamic ==
  /\ InitDom
  /\ \E items \in ItemLists :
       Constructor([InitProps(items, "basic", TRUE, TRUE, 1, Undefined, Undefined)
                      EXCEPT !.dynamicHeights = TRUE],
                   EmptyStore)

NextDynamic ==
  \/ Mount
  \/ FlushDidMount
  \/ Scroll
  \/ UpdateScrollPosition
  \/ MeasureContainerAsync
  \/ AnimationFrame
  \/ FetchMore
  \/ ResizeObserved

SpecDynamic == InitDynamic /\ [][NextDynamic]_vars

-----------------------------------------------------------------------------
(* reflow() *)

\* a variant that leaves the position store as it is
ResetMeasurementsOnly(s, I) ==
  [state |-> [s EXCEPT !.measurementStore = EmptyStore], inst |-> I]

\* the three resets of reflow: props.measurementStore, when it is given, is
\* the object state.measurementStore holds
ResetStores(s, I) ==
  [state |-> [s EXCEPT !.measurementStore = EmptyStore],
   inst |-> [I EXCEPT !.positionStore = EmptyStore]]

\* measureContainer()
MeasureContainer(I) ==
  IF I.scrollContainer
  THEN [I EXCEPT !.containerHeight = dom.containerHeight,
                 !.containerOffset = dom.containerOffset]
  ELSE I

\* reflow(): the resets, measureContainer(), forceUpdate()
Reflow ==
  /\ Idle
  /\ Len(rafQueue) < MaxRaf
  /\ \E c \in {ResetStores(state, inst)} :
       \E r \in {UpdateWith(props, c.state, c.state, MeasureContainer(c.inst))} :
         Commit([r EXCEPT !.out.sets = Counted(NoCount, r.out.measuring)])
  /\ UNCHANGED <<props, dom, phase>>

\* the host supplies a measurement store that already holds every item
InitReflow ==
  /\ InitDom
  /\ \E items \in ItemLists :
       Constructor(InitProps(items, "basic", TRUE, TRUE, 1, Undefined, Undefined),
                   FilledStore)

NextReflow ==
  \/ Mount
  \/ FlushDidMount
  \/ ReceiveProps
  \/ WindowResize
  \/ HandleResize
  \/ Scroll
  \/ UpdateScrollPosition
  \/ MeasureContainerAsync
  \/ AnimationFrame
  \/ FetchMore
  \/ Reflow

SpecReflow == InitReflow /\ [][NextReflow]_vars

-----------------------------------------------------------------------------
(* render: the number of items measured in one pass when items may span columns *)

NBatchItems == 3
BatchMaxLen == 3
MaxBatchSize == 2

BatchItems == 1..NBatchItems

BatchItemLists ==
  { s \in UNION { [1..n -> BatchItems \cup {NullItem}] : n \in 0..BatchMaxLen } :
      \A i, j \in DOMAIN s : i # j => s[i] # s[j] }

\* items.filter((item) => !measurementStore.has(item)): null entries stay
ItemsWithoutMeasurements(items, measured) ==
  LET NoMeasurement(item) == item \notin measured
  IN SelectSeq(items, NoMeasurement)

\* the place, from 1, of the first entry of itemSeq for which
\* _getColumnSpanConfig(item) !== 1, or 0 when find() returns undefined
FindMultiColumn(itemSeq, multi) ==
  LET hits == { k \in 1..Len(itemSeq) : itemSeq[k] \in multi }
  IN IF hits = {} THEN 0 ELSE CHOOSE k \in hits : \A j \in hits : k <= j

\* itemsWithoutMeasurements.indexOf(nextMultiColumnItem)
NextMultiColumnItemIndex(c) ==
  FindMultiColumn(ItemsWithoutMeasurements(c.items, c.measured), c.multi) - 1

\* nextMultiColumnItem, NullItem when there is none
NextMultiColumnItem(c) ==
  LET pending == ItemsWithoutMeasurements(c.items, c.measured)
      k == FindMultiColumn(pending, c.multi)
  IN IF k = 0 THEN NullItem ELSE pending[k]

\* !!responsiveModuleConfigForSecondItem && nextMultiColumnItem === items[1]
IsFlexibleWidthItem(c) ==
  /\ c.responsive
  /\ Len(c.items) >= 2
  /\ c.items[2] # NullItem
  /\ NextMultiColumnItem(c) = c.items[2]

\* a variant that takes the strategy's batch size for the flexible-width item too
BatchSizeAlways(c) ==
  IF NextMultiColumnItem(c) # NullItem THEN c.itemsBatchSize ELSE Undefined

\* batchSize: assigned only for a multi-column item that is not the
\* flexible-width second item; c.itemsBatchSize is the itemsBatchSize of
\* _getModulePositioningConfig's result or, without one, the default
BatchSize(c) ==
  IF NextMultiColumnItem(c) # NullItem /\ ~IsFlexibleWidthItem(c)
  THEN c.itemsBatchSize
  ELSE Undefined

\* batchSize && nextMultiColumnItemIndex <= batchSize ? batchSize + 1 : minCols
MultiColumnItemsToMeasureCount(c) ==
  LET batchSize == BatchSize(c)
  IN IF Truthy(batchSize) /\ NextMultiColumnItemIndex(c) <= batchSize
     THEN batchSize + 1
     ELSE c.minCols

\* items.filter((item) => item && !measurementStore.has(item)).slice(0, itemsToMeasureCount)
MultiColumnItemsToMeasure(c) ==
  LET NeedsMeasurement(item) == item # NullItem /\ item \notin c.measured
  IN First(SelectSeq(c.items, NeedsMeasurement), MultiColumnItemsToMeasureCount(c))

\* the component is set aside: `out` holds the inputs of one full-layout pass
\* and, once the pass has run, the items it measures
SetAside ==
  /\ InitDom
  /\ props = InitProps(<<>>, "basic", TRUE, TRUE, 1, Undefined, Undefined)
  /\ state = [gutter |-> 1, hasPendingMeasurements |-> FALSE, isFetching |-> FALSE,
              items |-> <<>>, measurementStore |-> EmptyStore, scrollTop |-> 0,
              width |-> Undefined]
  /\ inst = [containerHeight |-> 0, containerOffset |-> 0, positionStore |-> EmptyStore,
             maxHeight |-> 0, gridWrapper |-> FALSE, scrollContainer |-> FALSE]
  /\ rafQueue = <<>>
  /\ timers = [resize |-> FALSE, measure |-> FALSE, scroll |-> FALSE]
  /\ phase = "pass"
  /\ pendingFetch = <<>>

InitBatch ==
  /\ SetAside
  /\ \E items \in BatchItemLists, measured \in SUBSET BatchItems,
        multi \in SUBSET (BatchItems \cup {NullItem}),
        itemsBatchSize \in 0..MaxBatchSize, responsive \in BOOLEAN, minCols \in 1..2 :
       out = [call |-> [items |-> items, measured |-> measured, multi |-> multi,
                        itemsBatchSize |-> itemsBatchSize, responsive |-> responsive,
                        minCols |-> minCols],
              done |-> FALSE, itemsToMeasure |-> <<>>]

RenderBatch ==
  /\ phase = "pass"
  /\ ~out.done
  /\ out' = [out EXCEPT !.done = TRUE, !.itemsToMeasure = MultiColumnItemsToMeasure(out.call)]
  /\ UNCHANGED <<props, state, inst, dom, rafQueue, timers, phase, pendingFetch>>

NextBatch == RenderBatch

SpecBatch == InitBatch /\ [][NextBatch]_vars

-----------------------------------------------------------------------------
(* The single-column layout strategy on its own *)

LayoutMaxLen == 4
MaxColumns == 3
MaxHeight == 2

\* six items in three columns with a gutter of 10
ExampleCall ==
  [heights |-> <<100, 150, 80, 120, 90, 110>>, columns |-> 3, gutter |-> 10]

LayoutCalls ==
  {ExampleCall} \cup
  [heights : UNION { [1..n -> 0..MaxHeight] : n \in 0..LayoutMaxLen },
   columns : 1..MaxColumns,
   gutter : {0, 1}]

\* the positions of items 1..n, measured c.heights, in a container narrower
\* than a column, so that the column count is minCols
LayoutOf(c) ==
  LET p == [InitProps(<<>>, "basic", TRUE, TRUE, 1, Undefined, Undefined)
              EXCEPT !.gutterWidth = c.gutter, !.minCols = c.columns]
      s == [width |-> 0, measurementStore |-> c.heights]
  IN GetPositions(p, s, [k \in 1..Len(c.heights) |-> k])

InitLayout ==
  /\ SetAside
  /\ \E c \in LayoutCalls : out = [call |-> c, done |-> FALSE, positions |-> <<>>]

LayoutPass ==
  /\ phase = "pass"
  /\ ~out.done
  /\ out' = [out EXCEPT !.done = TRUE, !.positions = LayoutOf(out.call)]
  /\ UNCHANGED <<props, state, inst, dom, rafQueue, timers, phase, pendingFetch>>

NextLayout == LayoutPass

SpecLayout == InitLayout /\ [][NextLayout]_vars

-----------------------------------------------------------------------------
(* The multi-column layout strategy, after its description: an item that     *)
(* spans columns is put on the adjacent columns where it leaves the least    *)
(* whitespace, the leftmost such columns on ties; items that span one column *)
(* go to the shortest column                                                 *)

MultiMaxLen == 4
MaxSpan == 3

\* a variant that does not clamp
ActualColumnSpanAsConfigured(span, columnCount) == span

\* calculateActualColumnSpan: the configured span, clamped to the column count
ActualColumnSpan(span, columnCount) ==
  IF span > columnCount THEN columnCount ELSE span

\* the columns an item of `span` columns occupies when its first column is c
Covered(heights, c, span) == (c..(c + span - 1)) \cap DOMAIN heights

\* a variant that puts the item on the shortest of its columns
TopOnShortest(heights, c, span) ==
  CHOOSE m \in { heights[d] : d \in Covered(heights, c, span) } :
    \A d \in Covered(heights, c, span) : m <= heights[d]

\* the top of an item on these columns: the height of the tallest of them
TopOfCandidate(heights, c, span) ==
  CHOOSE m \in { heights[d] : d \in Covered(heights, c, span) } :
    \A d \in Covered(heights, c, span) : heights[d] <= m

\* the largest whitespace the item leaves below itself on these columns
Whitespace(heights, c, span) ==
  LET top == TopOfCandidate(heights, c, span)
      gaps == { top - heights[d] : d \in Covered(heights, c, span) }
  IN CHOOSE w \in gaps : \A g \in gaps : g <= w

\* the first column of the candidate with the least whitespace, the leftmost on ties
BestCandidate(heights, span) ==
  LET last == Max(1, Len(heights) - span + 1)
  IN CHOOSE c \in 1..last :
       /\ \A d \in 1..last : Whitespace(heights, c, span) <= Whitespace(heights, d, span)
       /\ \A d \in 1..last :
            Whitespace(heights, d, span) = Whitespace(heights, c, span) => c <= d

RECURSIVE PlaceMulti(_, _, _, _, _, _, _)
PlaceMulti(p, store, spans, itemSeq, k, heights, acc) ==
  IF k > Len(itemSeq) THEN acc
  ELSE LET item == itemSeq[k]
           height == Get(store, item)
           span == ActualColumnSpan(spans[item], Len(heights))
           col == IF span = 1 THEN Mindex(heights) ELSE BestCandidate(heights, span)
           top == TopOfCandidate(heights, col, span)
           position == [top |-> top,
                        left |-> (col - 1) * (p.columnWidth + p.gutterWidth),
                        width |-> span * p.columnWidth + (span - 1) * p.gutterWidth,
                        height |-> height]
       IN PlaceMulti(p, store, spans, itemSeq, k + 1,
                     [d \in DOMAIN heights |->
                        IF d \in Covered(heights, col, span)
                        THEN top + height + p.gutterWidth
                        ELSE heights[d]],
                     Append(acc, position))

\* one item of the list, at place `at`, is configured to span `span` columns
MultiCalls ==
  { c \in [heights : UNION { [1..n -> 0..MaxHeight] : n \in 1..MultiMaxLen },
           at : 1..MultiMaxLen,
           span : 1..MaxSpan,
           columns : 1..MaxColumns,
           gutter : {0, 1}] :
      c.at <= Len(c.heights) }

\* _getColumnSpanConfig(item) for the items 1..n of a call
SpansOf(c) == [k \in 1..Len(c.heights) |-> IF k = c.at THEN c.span ELSE 1]

\* the positions of items 1..n of a call, in a container narrower than a column
MultiLayoutOf(c) ==
  LET p == [InitProps(<<>>, "basic", TRUE, TRUE, 1, Undefined, Undefined)
              EXCEPT !.gutterWidth = c.gutter, !.minCols = c.columns]
  IN PlaceMulti(p, c.heights, SpansOf(c), [k \in 1..Len(c.heights) |-> k], 1,
                [d \in 1..GetColumnCount(p, 0) |-> 0], <<>>)

InitMulti ==
  /\ SetAside
  /\ \E c \in MultiCalls : out = [call |-> c, done |-> FALSE, positions |-> <<>>]

MultiLayoutPass ==
  /\ phase = "pass"
  /\ ~out.done
  /\ out' = [out EXCEPT !.done = TRUE, !.positions = MultiLayoutOf(out.call)]
  /\ UNCHANGED <<props, state, inst, dom, rafQueue, timers, phase, pendingFetch>>

NextMulti == MultiLayoutPass

SpecMulti == InitMulti /\ [][NextMulti]_vars

-----------------------------------------------------------------------------
(* The column count resolver on its own *)

MaxWidth == 12
MaxColumnWidth == 3

LayoutModes == {"basic", "basicCentered", "flexible", "serverRenderedFlexible", "uniformRow"}

ColumnCalls ==
  [width : 0..MaxWidth, columnWidth : 1..MaxColumnWidth, gutter : 0..2,
   minCols : 1..MaxColumns, layout : LayoutModes]

\* getColumnCount({ gutter, columnWidth, width, minCols, layout })
ColumnCountOf(c) ==
  GetColumnCount([InitProps(<<>>, c.layout, TRUE, TRUE, 1, Undefined, Undefined)
                    EXCEPT !.columnWidth = c.columnWidth, !.gutterWidth = c.gutter,
                           !.minCols = c.minCols],
                 c.width)

InitColumns ==
  /\ SetAside
  /\ \E c \in ColumnCalls : out = [call |-> c, done |-> FALSE, gridSize |-> 0]

ResolveColumns ==
  /\ phase = "pass"
  /\ ~out.done
  /\ out' = [out EXCEPT !.done = TRUE, !.gridSize = ColumnCountOf(out.call)]
  /\ UNCHANGED <<props, state, inst, dom, rafQueue, timers, phase, pendingFetch>>

NextColumns == ResolveColumns

SpecColumns == InitColumns /\ [][NextColumns]_vars

-----------------------------------------------------------------------------
(* ScrollContainer, the component that subscribes onScroll to the scroll     *)
(* element. In its specification `props` and `inst` are its own props and    *)
(* fields, `dom` holds, for every element, how often handleScroll is         *)
(* registered on it, and `out` the last event dispatched and the calls of    *)
(* onScroll it led to.                                                       *)

NElements == 2
NHandlers == 2
NEvents == 2

Elements == 1..NElements
NoElement == 0
Handlers == 1..NHandlers
Events == 1..NEvents

\* getScrollContainer: the element, or what the accessor function returns
GetScrollContainer(scrollContainer) == scrollContainer

\* element.addEventListener('scroll', handleScroll): a listener that is
\* already registered is not registered again
AddEventListener(listeners, el) == [listeners EXCEPT ![el] = IF @ = 0 THEN 1 ELSE @]

\* element.removeEventListener('scroll', handleScroll)
RemoveEventListener(listeners, el) == [listeners EXCEPT ![el] = 0]

\* a variant that records the element without subscribing to it
UpdateScrollContainerUnsubscribed(I, d, el) ==
  [inst |-> [I EXCEPT !.scrollContainer = el],
   dom |-> IF I.scrollContainer # NoElement
           THEN [d EXCEPT !.listeners = RemoveEventListener(@, I.scrollContainer)]
           ELSE d]

\* a variant that leaves the listener on the element it replaces
UpdateScrollContainerNoCleanup(I, d, el) ==
  [inst |-> [I EXCEPT !.scrollContainer = el],
   dom |-> [d EXCEPT !.listeners = AddEventListener(@, el)]]

\* updateScrollContainer(scrollContainer)
UpdateScrollContainer(I, d, el) ==
  LET cleaned == IF I.scrollContainer # NoElement
                 THEN RemoveEventListener(d.listeners, I.scrollContainer)
                 ELSE d.listeners
  IN [inst |-> [I EXCEPT !.scrollContainer = el],
      dom |-> [d EXCEPT !.listeners = AddEventListener(cleaned, el)]]

\* handleScroll(event): this.props.onScroll(event)
HandleScroll(p, event) == [onScroll |-> p.onScroll, event |-> event]

RECURSIVE Calls(_, _, _)
Calls(n, p, event) ==
  IF n = 0 THEN <<>> ELSE Append(Calls(n - 1, p, event), HandleScroll(p, event))

InitScrollContainer ==
  /\ props \in [onScroll : Handlers, scrollContainer : Elements \cup {NoElement}]
  /\ inst = [scrollContainer |-> NoElement]
  /\ dom = [listeners |-> [el \in Elements |-> 0]]
  /\ phase = "constructed"
  /\ out = [target |-> NoElement, event |-> 0, calls |-> <<>>]
  /\ state = [width |-> Undefined]
  /\ rafQueue = <<>>
  /\ timers = [resize |-> FALSE, measure |-> FALSE, scroll |-> FALSE]
  /\ pendingFetch = <<>>

\* componentDidMount
ScrollContainerDidMount ==
  /\ phase = "constructed"
  /\ LET scrollContainer == GetScrollContainer(props.scrollContainer)
     IN IF scrollContainer # NoElement
        THEN \E r \in {UpdateScrollContainer(inst, dom, scrollContainer)} :
               inst' = r.inst /\ dom' = r.dom
        ELSE UNCHANGED <<inst, dom>>
  /\ phase' = "mounted"
  /\ UNCHANGED <<props, state, rafQueue, timers, pendingFetch, out>>

\* the parent renders the component with new props: render, componentDidUpdate
ScrollContainerDidUpdate ==
  /\ phase = "mounted"
  /\ \E p \in [onScroll : Handlers, scrollContainer : Elements \cup {NoElement}] :
       /\ props' = p
       /\ LET nextScrollContainer == GetScrollContainer(p.scrollContainer)
          IN IF nextScrollContainer # NoElement /\ nextScrollContainer # inst.scrollContainer
             THEN \E r \in {UpdateScrollContainer(inst, dom, nextScrollContainer)} :
                    inst' = r.inst /\ dom' = r.dom
             ELSE UNCHANGED <<inst, dom>>
  /\ UNCHANGED <<state, rafQueue, timers, phase, pendingFetch, out>>

\* componentWillUnmount
ScrollContainerWillUnmount ==
  /\ phase = "mounted"
  /\ dom' = IF inst.scrollContainer # NoElement
            THEN [dom EXCEPT !.listeners = RemoveEventListener(@, inst.scrollContainer)]
            ELSE dom
  /\ phase' = "unmounted"
  /\ UNCHANGED <<props, state, inst, rafQueue, timers, pendingFetch, out>>

\* a scroll event is dispatched on an element: every registered listener runs
DispatchScroll(el, event) ==
  /\ out' = [target |-> el, event |-> event,
             calls |-> Calls(dom.listeners[el], props, event)]
  /\ UNCHANGED <<props, state, inst, dom, rafQueue, timers, phase, pendingFetch>>

ScrollEvent == \E el \in Elements, event \in Events : DispatchScroll(el, event)

NextScrollContainer ==
  \/ ScrollContainerDidMount
  \/ ScrollContainerDidUpdate
  \/ ScrollContainerWillUnmount
  \/ ScrollEvent

SpecScrollContainer == InitScrollContainer /\ [][NextScrollContainer]_vars

-----------------------------------------------------------------------------
(* Dropdown, the menu whose options are navigated with the keyboard. In its  *)
(* specification `props` holds its children, `state` the two indices it     *)
(* keeps with useState, and `out` what its last render handed to the options *)
(* and what the last key press did: the calls of onSelect, whether the       *)
(* handler threw, whether onDismiss was called.                              *)

NOptions == 2
MaxChildren == 2
MaxSectionChildren == 2

\* const KEYS: the direction handleKeyNavigation is called with
KEYS == [UP |-> 0 - 1, DOWN |-> 1, ENTER |-> 0]

DropdownItemDisplayNames == {"Dropdown.Item", "Dropdown.Link"}

\* null where an index is expected
NullIndex == 0 - 2

\* the empty nodes of a list of children
NullNode == [type |-> "null"]
FalseNode == [type |-> "false"]
UndefinedNode == [type |-> "undefined"]

IsEmptyNode(node) == node.type \in {"null", "false", "undefined"}

\* the option elements: option 1 is a Dropdown.Item, every other a Dropdown.Link
OptionElements ==
  { [type |-> IF o = 1 THEN "Dropdown.Item" ELSE "Dropdown.Link",
     option |-> o, disabled |-> d] : o \in 1..NOptions, d \in BOOLEAN }

\* what a section or a fragment is given as children: options and empty nodes
\* ({condition && <Dropdown.Item ... />}); <<>> stands for no children at all
SectionChildren ==
  UNION { [1..n -> OptionElements \cup {NullNode, FalseNode}] : n \in 0..MaxSectionChildren }

DropdownChildren ==
  LET Nodes == OptionElements \cup {NullNode}
                 \cup [type : {"Dropdown.Section", "Fragment"}, children : SectionChildren]
  IN UNION { [1..n -> Nodes] : n \in 0..MaxChildren }

\* Children.toArray: the empty nodes are left out
ChildrenToArray(children) ==
  LET Kept(node) == ~IsEmptyNode(node)
  IN SelectSeq(children, Kept)

\* the test both reductions make of a child: a section that has children, or a fragment
IsSectionWithChildren(child) ==
  \/ child.type = "Dropdown.Section" /\ child.children # <<>>
  \/ child.type = "Fragment"

\* the props.children of a section as the reduction of getChildrenOptions
\* spreads them: the array as it was given, or the one value in an array
SpreadChildren(children) == IF children = <<>> THEN <<UndefinedNode>> ELSE children

RECURSIVE GetChildrenOptionsFrom(_, _, _)
GetChildrenOptionsFrom(childrenArray, k, accumulatedChildren) ==
  IF k > Len(childrenArray) THEN accumulatedChildren
  ELSE LET currentChild == childrenArray[k]
       IN GetChildrenOptionsFrom(childrenArray, k + 1,
            IF IsSectionWithChildren(currentChild)
            THEN accumulatedChildren \o SpreadChildren(currentChild.children)
            ELSE IF currentChild.type \in DropdownItemDisplayNames
            THEN Append(accumulatedChildren, currentChild)
            ELSE accumulatedChildren)

\* getChildrenOptions(childrenArray): the flattened list keyboard navigation uses
GetChildrenOptions(childrenArray) == GetChildrenOptionsFrom(childrenArray, 1, <<>>)

\* cloneElement(child, {_index: index})
WithIndex(child, index) ==
  [type |-> child.type, option |-> child.option, disabled |-> child.disabled,
   index |-> index]

\* renderDropdownItemsWithIndex(dropdownChildren, idxBase)
RenderDropdownItemsWithIndex(dropdownChildren, idxBase) ==
  [idx \in 1..Len(dropdownChildren) |->
     IF dropdownChildren[idx].type \in DropdownItemDisplayNames
     THEN WithIndex(dropdownChildren[idx], (idx - 1) + idxBase)
     ELSE dropdownChildren[idx]]

RECURSIVE RenderChildrenWithIndexFrom(_, _, _, _)
RenderChildrenWithIndexFrom(childrenArray, k, numItemsRendered, acc) ==
  IF k > Len(childrenArray) THEN acc
  ELSE LET child == childrenArray[k]
           sectionChildrenArray == ChildrenToArray(child.children)
       IN IF IsSectionWithChildren(child)
          THEN RenderChildrenWithIndexFrom(childrenArray, k + 1,
                 numItemsRendered + Len(sectionChildrenArray),
                 Append(acc, [type |-> child.type,
                              children |-> RenderDropdownItemsWithIndex(
                                             sectionChildrenArray, numItemsRendered)]))
          ELSE IF child.type \in DropdownItemDisplayNames
          THEN RenderChildrenWithIndexFrom(childrenArray, k + 1, numItemsRendered + 1,
                 Append(acc, WithIndex(child, numItemsRendered)))
          ELSE RenderChildrenWithIndexFrom(childrenArray, k + 1, numItemsRendered, acc)

\* renderChildrenWithIndex(childrenArray): the children with _index injected
RenderChildrenWithIndex(childrenArray) ==
  RenderChildrenWithIndexFrom(childrenArray, 1, 0, <<>>)

\* the body of the function component: the option list and the rendered children
DropdownRender(p) ==
  LET dropdownChildrenArray == ChildrenToArray(p.children)
  IN [allowedChildrenOptions |-> GetChildrenOptions(dropdownChildrenArray),
      rendered |-> RenderChildrenWithIndex(dropdownChildrenArray)]

\* index ?? 0
OrZero(index) == IF index = Undefined \/ index = NullIndex THEN 0 ELSE index

\* the index handleKeyNavigation moves to
CursorIndex(direction, index, optionsCount) ==
  LET newIndex == direction + OrZero(index)
  IN IF newIndex > optionsCount THEN 0
     ELSE IF newIndex < 0 THEN optionsCount
     ELSE newIndex

\* direction === KEYS.ENTER && !cursorOption.disabled
Selects(direction, cursorOption) == direction = KEYS.ENTER /\ ~cursorOption.disabled

\* handleKeyNavigation(event, direction, index): the state and the calls of
\* onSelect it leaves; reading props of null or undefined throws
HandleKeyNavigation(s, allowedChildrenOptions, direction, index) ==
  LET optionsCount == Len(allowedChildrenOptions) - 1
      cursorIndex == CursorIndex(direction, index, optionsCount)
      entry == IF cursorIndex + 1 \in DOMAIN allowedChildrenOptions
               THEN allowedChildrenOptions[cursorIndex + 1]
               ELSE UndefinedNode
  IN IF entry.type \in {"null", "undefined"}
     THEN [state |-> s, calls |-> <<>>, threw |-> TRUE]
     ELSE IF entry.type = "false"
     THEN [state |-> s, calls |-> <<>>, threw |-> FALSE]
     ELSE [state |-> [s EXCEPT !.focusedItemIndex = cursorIndex,
                               !.hoveredItemIndex = NullIndex],
           calls |-> IF Selects(direction, entry) THEN <<entry.option>> ELSE <<>>,
           threw |-> FALSE]

InitDropdown ==
  /\ props \in [children : DropdownChildren, isMobile : BOOLEAN]
  /\ state = [focusedItemIndex |-> IF props.isMobile THEN Undefined ELSE 0,
              hoveredItemIndex |-> IF props.isMobile THEN Undefined ELSE 0]
  /\ out = [rendered |-> DropdownRender(props).rendered,
            calls |-> <<>>, threw |-> FALSE, dismissed |-> FALSE]
  /\ phase = "mounted"
  /\ inst = <<>>
  /\ dom = <<>>
  /\ rafQueue = <<>>
  /\ timers = [resize |-> FALSE, measure |-> FALSE, scroll |-> FALSE]
  /\ pendingFetch = <<>>

\* onKeyDown with an arrow key or ENTER, and the render that follows
KeyNavigation(direction) ==
  /\ \E r \in {HandleKeyNavigation(state, DropdownRender(props).allowedChildrenOptions,
                                   direction, state.focusedItemIndex)} :
       /\ state' = r.state
       /\ out' = [out EXCEPT !.rendered = DropdownRender(props).rendered,
                             !.calls = r.calls,
                             !.threw = r.threw,
                             !.dismissed = FALSE]
  /\ UNCHANGED <<props, inst, dom, rafQueue, timers, phase, pendingFetch>>

ArrowUp == KeyNavigation(KEYS.UP)

ArrowDown == KeyNavigation(KEYS.DOWN)

Enter == KeyNavigation(KEYS.ENTER)

\* onKeyDown with ESCAPE or TAB: anchor?.focus(), onDismiss()
EscapeOrTab ==
  /\ out' = [out EXCEPT !.calls = <<>>, !.threw = FALSE, !.dismissed = TRUE]
  /\ UNCHANGED <<props, state, inst, dom, rafQueue, timers, phase, pendingFetch>>

\* onKeyDown with SPACE: event.preventDefault()
Space ==
  /\ out' = [out EXCEPT !.calls = <<>>, !.threw = FALSE, !.dismissed = FALSE]
  /\ UNCHANGED <<props, state, inst, dom, rafQueue, timers, phase, pendingFetch>>

\* the indices the rendered options were given
RECURSIVE RenderedOptionsFrom(_, _)
RenderedOptionsFrom(rendered, k) ==
  IF k > Len(rendered) THEN <<>>
  ELSE LET IsOption(node) == node.type \in DropdownItemDisplayNames
       IN (IF rendered[k].type \in DropdownItemDisplayNames
           THEN <<rendered[k]>>
           ELSE SelectSeq(rendered[k].children, IsOption))
          \o RenderedOptionsFrom(rendered, k + 1)

RenderedOptions(rendered) == RenderedOptionsFrom(rendered, 1)

\* an option calls the setHoveredItemIndex of the context with its _index
MouseEnter ==
  /\ \E k \in 1..Len(RenderedOptions(out.rendered)) :
       state' = [state EXCEPT !.hoveredItemIndex = RenderedOptions(out.rendered)[k].index]
  /\ UNCHANGED <<props, inst, dom, rafQueue, timers, phase, pendingFetch, out>>

NextDropdown ==
  \/ ArrowUp
  \/ ArrowDown
  \/ Enter
  \/ EscapeOrTab
  \/ Space
  \/ MouseEnter

SpecDropdown == InitDropdown /\ [][NextDropdown]_vars

-----------------------------------------------------------------------------
(* Teardown *)

\* cancelAnimationFrame(this.insertAnimationFrame): the field holds the id of
\* the request made last, the last entry of the queue when it is still pending
CancelAnimationFrame(queue) ==
  IF queue = <<>> THEN queue ELSE SubSeq(queue, 1, Len(queue) - 1)

\* componentWillUnmount: the last animation-frame request is cancelled, the
\* three timers are cleared, the resize listener is removed
ComponentWillUnmount ==
  /\ Idle
  /\ phase' = "unmounted"
  /\ rafQueue' = CancelAnimationFrame(rafQueue)
  /\ timers' = [resize |-> FALSE, measure |-> FALSE, scroll |-> FALSE]
  /\ UNCHANGED <<props, state, inst, dom, pendingFetch, out>>

\* an animation-frame callback that was not cancelled runs after the unmount:
\* React drops the setState of an unmounted component
LateAnimationFrame ==
  /\ phase = "unmounted"
  /\ rafQueue # <<>>
  /\ rafQueue' = Tail(rafQueue)
  /\ UNCHANGED <<props, state, inst, dom, timers, phase, pendingFetch, out>>

NextTeardown ==
  \/ Mount
  \/ FlushDidMount
  \/ WindowResize
  \/ HandleResize
  \/ Scroll
  \/ UpdateScrollPosition
  \/ MeasureContainerAsync
  \/ AnimationFrame
  \/ FetchMore
  \/ ComponentWillUnmount
  \/ LateAnimationFrame

SpecTeardown == Init /\ [][NextTeardown]_vars

-----------------------------------------------------------------------------
(* Properties *)

KnownWidthChange == state.width # Undefined /\ state'.width # state.width

NoEntries(store) == DOMAIN store = {}

\* C1: whenever state.width changes from one known value to another, the
\* update leaves both the measurement store and the position store without
\* entries
C1_StoresResetOnWidthChange ==
  [][KnownWidthChange =>
       NoEntries(state'.measurementStore) /\ NoEntries(inst'.positionStore)]_vars

\* the last pass placed cached items and both stores are empty now
C1_Witness ==
  /\ phase = "mounted"
  /\ Len(out.placed) = 2
  /\ NoEntries(state.measurementStore)
  /\ NoEntries(inst.positionStore)

\* the new items prop differs by reference at some index, or is shorter
ChangedOrShorter(items, stateItems) ==
  \/ Len(items) < Len(stateItems)
  \/ \E i \in 1..Len(items) : i <= Len(stateItems) /\ items[i] # stateItems[i]

\* C2 as stated: an item list that differs by reference or is shorter, or a
\* width change, leaves the controller with hasPendingMeasurements true
C2_EntersMeasuring ==
  [][(ChangedOrShorter(props'.items, state.items) \/ KnownWidthChange)
       => state'.hasPendingMeasurements]_vars

\* C2 amended: after an update that replaces the item list, the flag is true
\* exactly when some entry of the new list has no measurement in the store;
\* after a width change, an animation-frame update carrying true is requested
\* exactly when the list has a non-null item
C2_MeasuringIffUnmeasured ==
  [][/\ props'.items # state.items =>
          (state'.hasPendingMeasurements <=>
             \E i \in 1..Len(props'.items) :
                props'.items[i] \notin DOMAIN state.measurementStore)
     /\ KnownWidthChange =>
          IF \E i \in 1..Len(props.items) : props.items[i] # NullItem
          THEN rafQueue' = Append(rafQueue, TRUE)
          ELSE rafQueue' \in {rafQueue, Append(rafQueue, FALSE)}]_vars

\* a list of one measured item, shortened from two that were both laid out,
\* with the controller not measuring
C2_Witness ==
  /\ phase = "mounted"
  /\ Len(props.items) = 1
  /\ DOMAIN inst.positionStore = {1, 2}
  /\ out.mode = "layout"
  /\ Len(out.placed) = 1
  /\ ~state.hasPendingMeasurements

\* C3 as stated: isFetching, once set for offset N, is cleared only by an item
\* list of length >= N that extends the previous one
C3_ClearedOnlyByLongerList ==
  [][(state.isFetching /\ ~state'.isFetching) =>
       /\ Len(props'.items) >= out.lastFrom
       /\ Len(props'.items) >= Len(state.items)
       /\ SubSeq(props'.items, 1, Len(state.items)) = state.items]_vars

\* C3 amended: isFetching, once set, is cleared by exactly the updates whose
\* items prop differs from the list the controller holds (another object at
\* some index, or another length: longer, shorter or empty); no other update
\* clears it
C3_ClearedIffItemsDiffer ==
  [][state.isFetching => (state'.isFetching <=> props'.items = state.items)]_vars

\* a fetch from offset 2, requested near the bottom, is still in flight after
\* the scroll update that brought the viewport back to the top
C3_Witness ==
  /\ phase = "mounted"
  /\ state.isFetching
  /\ out.lastFrom = 2
  /\ out.placed = <<1, 2>>
  /\ state.scrollTop = 0
  /\ out.view.scrollTop = 0

\* C4: loadItems is never requested from a pass in which isFetching or
\* hasPendingMeasurements is set, and at most one request is outstanding (made
\* and not yet followed by a change of the items prop)
C4_OneFetchOutstanding ==
  /\ ~out.gate
  /\ out.outstanding <= 1
  /\ out.outstanding = 1 => state.isFetching
  /\ pendingFetch # <<>> => ~state.isFetching /\ ~state.hasPendingMeasurements

\* a pass rendered near the bottom while a request was outstanding, and it
\* queued no other request
C4_Witness ==
  /\ phase = "mounted"
  /\ out.outstanding = 1
  /\ out.lastFrom = 2
  /\ state.isFetching
  /\ out.mode = "layout"
  /\ out.view.scrollTop + out.view.containerHeight >= out.height + out.view.containerOffset
  /\ pendingFetch = <<>>

NonNull(items) == { items[i] : i \in { j \in 1..Len(items) : items[j] # NullItem } }

Range(s) == { s[i] : i \in 1..Len(s) }

\* C5 as stated: while the width is unknown no item is rendered and no
\* measurement is written
C5_OnlyProbeWithoutWidth ==
  (phase = "mounting" /\ state.width = Undefined) =>
     out.rendered = {} /\ out.measuring = <<>>

\* C5 amended: while the width is unknown, a controller with no pending
\* measurement renders the empty probe and writes no measurement; one with
\* pending measurements (hydration) renders every non-null item and writes
\* each one's height to the store, unless the layout is flexible
C5_ProbeOrHydration ==
  phase = "mounting" =>
    /\ state.width = Undefined
    /\ IF state.hasPendingMeasurements
       THEN /\ out.mode = "hydrate"
            /\ out.rendered = NonNull(props.items)
            /\ Range(out.measuring) =
                 IF props.layout = "flexible" THEN {} ELSE NonNull(props.items)
            /\ \A i \in Range(out.measuring) : Has(state.measurementStore, i)
       ELSE /\ out.mode = "probe"
            /\ out.rendered = {}
            /\ out.measuring = <<>>

\* a remounted grid of two measured items renders the probe while it has no width
C5_Witness ==
  /\ phase = "mounting"
  /\ state.width = Undefined
  /\ Len(props.items) = 2
  /\ out.mode = "probe"

\* the controller is stable: mounted, the width known, no pending measurement
\* and a measurement for every item
Stable ==
  /\ phase = "mounted"
  /\ state.width # Undefined
  /\ ~state.hasPendingMeasurements
  /\ \A i \in NonNull(props.items) : Has(state.measurementStore, i)

\* C6: with a fixed item list and a fixed width, and every scheduled update
\* eventually run, the controller eventually is stable
C6_EventuallyStable == <>Stable

BufferTop == IF props.virtualBoundsTop # Undefined THEN props.virtualBoundsTop
             ELSE out.view.containerHeight * props.virtualBufferFactor

BufferBottom == IF props.virtualBoundsBottom # Undefined THEN props.virtualBoundsBottom
                ELSE out.view.containerHeight * props.virtualBufferFactor

ScrollOffset == out.view.scrollTop - out.view.containerOffset

EntirelyAbove(position) == position.top + position.height < ScrollOffset - BufferTop

EntirelyBelow(position) ==
  position.top > ScrollOffset + out.view.containerHeight + BufferBottom

\* C8: with virtualization on and a scroll container, an item entirely above
\* or entirely below the buffered window is not rendered, and any other
\* placed item is
C8_Virtualizer ==
  (out.mode = "layout" /\ props.virtualize /\ props.scrollContainer) =>
    \A k \in 1..Len(out.placed) :
      out.placed[k] \in out.rendered <=>
        ~(EntirelyAbove(out.positions[k]) \/ EntirelyBelow(out.positions[k]))

\* C9: without a scroll container every item that had a measurement when the
\* pass began is rendered, whatever the scroll position and the buffer settings
C9_AllVisibleWithoutContainer ==
  [][(~props.scrollContainer /\ out'.mode = "layout" /\ <<state, out>>' # <<state, out>>)
       => \A i \in NonNull(props'.items) :
            Has(state.measurementStore, i) => i \in out'.rendered]_vars

\* virtualization requested without a scroll container: the second item, one
\* row down, is rendered
C9_Witness ==
  /\ ~props.scrollContainer
  /\ props.virtualize
  /\ props.virtualBufferFactor = 1
  /\ props.virtualBoundsBottom = 1
  /\ out.mode = "layout"
  /\ out.rendered = {1, 2}
  /\ out.positions[2].top > 1

\* C10 as stated: maxHeight never decreases
C10_MaxHeightMonotone == [][inst'.maxHeight >= inst.maxHeight]_vars

\* C10 amended: maxHeight does not decrease in a pass that positions at least
\* one item; a layout pass that positions none sets it to 0
C10_MaxHeightMonotoneWhilePlaced ==
  [][/\ out'.positions # <<>> => inst'.maxHeight >= inst.maxHeight
     /\ inst'.maxHeight < inst.maxHeight =>
          out'.mode = "layout" /\ out'.positions = <<>> /\ inst'.maxHeight = 0]_vars

\* the grid keeps the height of an earlier, taller pass
C10_Witness ==
  /\ out.mode = "layout"
  /\ out.positions # <<>>
  /\ inst.maxHeight > MaxBottom(out.positions, 1)
  /\ out.height = inst.maxHeight

\* C11: after componentWillUnmount no timer is armed and no animation-frame
\* callback is pending
C11_AllCancelled ==
  phase = "unmounted" =>
    /\ rafQueue = <<>>
    /\ ~timers.resize /\ ~timers.measure /\ ~timers.scroll

\* the entry reports a height for an item that has a position with another height
IsChange(entry) ==
  LET item == ChangedItem(state.items, entry.idx)
  IN /\ item # NullItem
     /\ Has(inst.positionStore, item)
     /\ Get(inst.positionStore, item).height # entry.height

\* C12: one invocation of the observer callback forces at most one update,
\* and forces one exactly when some entry is a change; the stores it leaves,
\* and the positions the forced update renders, hold the new height of every
\* entry that is a change
C12_OneUpdatePerInvocation ==
  [][\A entries \in ObservedEntries :
       ResizeObserverCallback(entries) =>
         /\ out'.forced <= 1
         /\ out'.forced = 1 <=> \E k \in DOMAIN entries : IsChange(entries[k])
         /\ \A k \in DOMAIN entries :
              IsChange(entries[k]) =>
                LET item == ChangedItem(state.items, entries[k].idx)
                IN /\ Get(state'.measurementStore, item) = entries[k].height
                   /\ Get(inst'.positionStore, item).height = entries[k].height
                   /\ \E j \in DOMAIN out'.placed :
                        /\ out'.placed[j] = item
                        /\ out'.positions[j].height = entries[k].height]_vars

\* one forced update after both items got the height 6
C12_Witness ==
  /\ out.forced = 1
  /\ out.placed = <<1, 2>>
  /\ Get(state.measurementStore, 1) = 6
  /\ Get(state.measurementStore, 2) = 6
  /\ out.positions[1].height = 6
  /\ out.positions[2].height = 6

\* C13: recalcHeights applied again with the same item and height changes
\* nothing and returns false, for the stores of every reachable state; and
\* after an invocation of the observer callback, the same entries delivered
\* again change no store and force no update
C13_SecondCallNoChange ==
  [][/\ \A item \in Items \cup {NullItem}, h \in NewHeights :
          LET r == RecalcHeights(state.items, item, h, inst.positionStore,
                                 state.measurementStore)
              again == RecalcHeights(state.items, item, h, r.positionStore,
                                     r.measurementStore)
          IN /\ ~again.changed
             /\ again.positionStore = r.positionStore
             /\ again.measurementStore = r.measurementStore
     /\ \A entries \in ObservedEntries :
          ResizeObserverCallback(entries) =>
            LET again == ForEachEntry(entries, 1, state'.items,
                                      [positionStore |-> inst'.positionStore,
                                       measurementStore |-> state'.measurementStore,
                                       changed |-> <<>>])
            IN /\ ForceUpdates(again.changed) = 0
               /\ again.positionStore = inst'.positionStore
               /\ again.measurementStore = state'.measurementStore]_vars

\* the first item got the height 6 from the observer, the second kept its own
C13_Witness ==
  /\ out.forced = 1
  /\ out.placed = <<1, 2>>
  /\ Get(state.measurementStore, 1) = 6
  /\ Get(state.measurementStore, 2) = ClientHeight(2, state.width)
  /\ Get(inst.positionStore, 1).height = 6

\* the items measured by the pass that has just rendered
MeasuredNow == Range(out.measuring)

\* C14: a reflow step throws away every measurement and every position: the
\* render it forces places no item, the position store is empty after it, the
\* only measurements held after it are those its own render took, and with a
\* list holding an item the grid is measuring again with a further update
\* scheduled
C14_ReflowDiscards ==
  [][Reflow =>
       /\ out'.mode = "layout"
       /\ out'.placed = <<>>
       /\ inst'.positionStore = EmptyStore
       /\ \A i \in Items : Has(state'.measurementStore, i) => i \in MeasuredNow'
       /\ \A i \in Items : Has(state'.measurementStore, i) => out'.sets[i] = 1
       /\ NonNull(props.items) # {} =>
            /\ MeasuredNow' # {}
            /\ state'.hasPendingMeasurements
            /\ rafQueue' # <<>>]_vars

\* after a reflow of a laid-out two-item grid: the first item measured anew,
\* for the second time at this width, and nothing placed
C14_Witness ==
  /\ phase = "mounted"
  /\ props.items = <<1, 2>>
  /\ out.placed = <<>>
  /\ inst.positionStore = EmptyStore
  /\ MeasuredNow = {1}
  /\ ~Has(state.measurementStore, 2)
  /\ out.sets = [i \in Items |-> IF i = 1 THEN 1 ELSE 0]
  /\ out.setsAtWidth[1] >= 2
  /\ out.setsAtWidth[2] >= 1

\* the store holds a measurement for every item of the list
HoldsEveryItem(store, items) == \A i \in NonNull(items) : Has(store, i)

\* C15: mounting with a store that already holds a measurement for every item
\* writes no measurement and keeps the store as it is, and the update that
\* makes the width known places every item
C15_MountKeepsSuppliedStore ==
  [][(Mount \/ FlushDidMount) /\ HoldsEveryItem(state.measurementStore, props.items) =>
       /\ out'.measuring = <<>>
       /\ state'.measurementStore = state.measurementStore
       /\ FlushDidMount => /\ out'.mode = "layout"
                            /\ Range(out'.placed) = NonNull(props.items)]_vars

\* the unmeasured items of a pass, in list order
PendingItems(c) ==
  LET Pending(item) == item # NullItem /\ item \notin c.measured
  IN SelectSeq(c.items, Pending)

\* an unmeasured multi-column item lies among the first itemsBatchSize + 1
\* unmeasured items
InLookahead(c) ==
  \E k \in 1..Len(PendingItems(c)) :
    PendingItems(c)[k] \in c.multi /\ k - 1 <= c.itemsBatchSize

\* C16 as stated: a pass measures at most itemsBatchSize + 1 items when an
\* unmeasured multi-column item lies within the lookahead window, and at most
\* minCols items otherwise
C16_AtMostBatch ==
  out.done =>
    Len(out.itemsToMeasure) <=
      (IF InLookahead(out.call) THEN out.call.itemsBatchSize + 1 ELSE out.call.minCols)

\* the first entry without a measurement that spans columns, null entries
\* counted, is an item other than a flexible-width second item and lies at an
\* index from 0 that does not exceed a batch size other than 0
UsesBatch(c) ==
  LET entries == ItemsWithoutMeasurements(c.items, c.measured)
      spans == { k \in 1..Len(entries) : entries[k] \in c.multi }
  IN /\ c.itemsBatchSize > 0
     /\ \E k \in spans :
          /\ \A j \in spans : k <= j
          /\ entries[k] # NullItem
          /\ k - 1 <= c.itemsBatchSize
          /\ ~(c.responsive /\ Len(c.items) >= 2 /\ entries[k] = c.items[2])

\* C16: a pass measures the first unmeasured items, itemsBatchSize + 1 of them
\* at most when the batch is used and minCols at most otherwise
C16_BatchOrMinCols ==
  out.done =>
    LET c == out.call
        limit == IF UsesBatch(c) THEN c.itemsBatchSize + 1 ELSE c.minCols
    IN out.itemsToMeasure = First(PendingItems(c), limit)

\* three items measured in one pass although minCols is 1: the second of them
\* spans columns and the batch size is 2
C16_Witness ==
  /\ out.done
  /\ out.call.minCols = 1
  /\ out.call.itemsBatchSize = 2
  /\ out.call.items = <<1, 2, 3>>
  /\ out.call.multi = {2}
  /\ ~out.call.responsive
  /\ out.itemsToMeasure = <<1, 2, 3>>

\* the step removes an entry from the store
Removes(store, after) == \E i \in DOMAIN store : ~Has(after, i)

\* C17: a step that removes an entry from the measurement store or from the
\* position store is a change of a known width or a reflow; changes of the
\* item list, scroll updates, load-more requests and re-renders keep every
\* entry
C17_OnlyWidthChangeOrReflowRemoves ==
  [][Removes(state.measurementStore, state'.measurementStore)
       \/ Removes(inst.positionStore, inst'.positionStore)
     => KnownWidthChange \/ Reflow]_vars

\* the list has been emptied and the entries of the items it held are still
\* in both stores
C17_Witness ==
  /\ phase = "mounted"
  /\ props.items = <<>>
  /\ state.items = <<>>
  /\ DOMAIN state.measurementStore = Items
  /\ DOMAIN inst.positionStore = Items

\* the column, from 1, of a position of the call
ColumnOf(c, position) == position.left \div (position.width + c.gutter) + 1

\* the positions of one column, by index
InColumn(c, positions, col) ==
  { k \in 1..Len(positions) : ColumnOf(c, positions[k]) = col }

\* C18: no two positions of a column have overlapping ranges [top, top + height)
C18_NoOverlapInColumn ==
  out.done =>
    \A i, j \in 1..Len(out.positions) :
      i # j /\ out.positions[i].left = out.positions[j].left =>
        \/ out.positions[i].top + out.positions[i].height <= out.positions[j].top
        \/ out.positions[j].top + out.positions[j].height <= out.positions[i].top

\* two items of height 2 stacked in the only column, without a gutter
C18_Witness ==
  /\ out.done
  /\ out.call = [heights |-> <<2, 2>>, columns |-> 1, gutter |-> 0]
  /\ out.positions[1].left = out.positions[2].left
  /\ out.positions[2].top = 2

\* the running height of a column before item k is placed: height + gutter of
\* every earlier item of that column
RECURSIVE RunningHeight(_, _, _, _)
RunningHeight(c, positions, col, k) ==
  IF k = 1 THEN 0
  ELSE RunningHeight(c, positions, col, k - 1)
         + (IF ColumnOf(c, positions[k - 1]) = col
            THEN positions[k - 1].height + c.gutter ELSE 0)

\* C19: every item, in list order, has its measured height and lies in the
\* column whose running height is smallest, the lowest such column on ties,
\* with its top at that running height
C19_ShortestColumnFirst ==
  out.done =>
    /\ Len(out.positions) = Len(out.call.heights)
    /\ \A k \in 1..Len(out.positions) :
         LET c == out.call
             col == ColumnOf(c, out.positions[k])
             Before(d) == RunningHeight(c, out.positions, d, k)
         IN /\ col \in 1..c.columns
            /\ out.positions[k].left = (col - 1) * (out.positions[k].width + c.gutter)
            /\ out.positions[k].height = c.heights[k]
            /\ out.positions[k].top = Before(col)
            /\ \A d \in 1..c.columns : Before(col) <= Before(d)
            /\ \A d \in 1..(col - 1) : Before(col) < Before(d)

\* a tie between the two columns after two equal items: the third item goes
\* to the first column, below the first item and its gutter
C19_Witness ==
  /\ out.done
  /\ out.call = [heights |-> <<1, 1, 1>>, columns |-> 2, gutter |-> 1]
  /\ out.positions[3].left = 0
  /\ out.positions[3].top = 2

\* C20 as stated: in the example column 0 gets exactly the items at indices
\* 0 and 3
C20_ExampleColumn0Indices03 ==
  out.done /\ out.call = ExampleCall =>
    InColumn(out.call, out.positions, 1) = {1, 4}

\* C20: in the example column 0 gets exactly the items at indices 0 and 4,
\* the second at top 100 + 10, and the item at index 3 goes to column 2,
\* whose running height 80 + 10 is the smallest when it is placed
C20_ExampleColumn0Indices04 ==
  out.done /\ out.call = ExampleCall =>
    /\ InColumn(out.call, out.positions, 1) = {1, 5}
    /\ InColumn(out.call, out.positions, 2) = {2, 6}
    /\ InColumn(out.call, out.positions, 3) = {3, 4}
    /\ out.positions[5].top = 110
    /\ out.positions[4].top = 90
    /\ out.positions[6].top = 160
    /\ RunningHeight(out.call, out.positions, 1, 7) = 210

\* the example laid out
C20_Witness ==
  /\ out.done
  /\ out.call = ExampleCall
  /\ Len(out.positions) = 6

\* the height of the tallest column: the largest top + height of the positions
TallestColumn(positions) ==
  LET bottoms == { positions[k].top + positions[k].height : k \in 1..Len(positions) }
  IN IF bottoms = {} THEN 0 ELSE CHOOSE m \in bottoms : \A b \in bottoms : b <= m

\* a step that renders a full-layout pass
LayoutPassStep == <<state, out>>' # <<state, out>> /\ out'.mode = "layout"

\* C21 as stated: the height of a layout pass is the height of its tallest column
C21_HeightIsTallestColumn ==
  out.mode = "layout" => out.height = TallestColumn(out.positions)

\* C21: the height of a layout pass that positions an item is the larger of
\* its tallest column and the maxHeight kept from the passes before it, and
\* the height of a pass that positions no item is 0
C21_HeightIsTallestColumnOrKept ==
  [][LayoutPassStep =>
       /\ out'.positions = <<>> => out'.height = 0
       /\ out'.positions # <<>> =>
            /\ out'.height = Max(TallestColumn(out'.positions), inst.maxHeight)
            /\ inst.maxHeight <= TallestColumn(out'.positions) =>
                 out'.height = TallestColumn(out'.positions)]_vars

\* one item is left of a list of two: the grid keeps the height the two had
C21_Witness ==
  /\ out.mode = "layout"
  /\ props.items = <<1>>
  /\ Len(out.positions) = 1
  /\ out.height > TallestColumn(out.positions)

\* two rectangles share a column and a part of their vertical ranges
Overlap(a, b) ==
  /\ a.left < b.left + b.width /\ b.left < a.left + a.width
  /\ a.top < b.top + b.height /\ b.top < a.top + a.height

\* C22: with one item configured to span 2 columns among single-span items,
\* at index 2 or at any other index, no single-span item that occupies one of
\* its columns overlaps it vertically
C22_NoOverlapWithTwoSpan ==
  out.done /\ out.call.span = 2 =>
    \A k \in 1..Len(out.positions) :
      k # out.call.at => ~Overlap(out.positions[out.call.at], out.positions[k])

\* the item at index 2 spans both columns, below the first two items and the
\* whitespace left under it in the shorter column, and above the fourth
C22_Witness ==
  /\ out.done
  /\ out.call = [heights |-> <<1, 2, 2, 1>>, at |-> 3, span |-> 2, columns |-> 2, gutter |-> 0]
  /\ out.positions[3] = [top |-> 2, left |-> 0, width |-> 6, height |-> 2]
  /\ out.positions[4].top = 4

\* the number of columns a position spans (columnWidth is 3 in every call)
SpanOf(c, position) == (position.width + c.gutter) \div (3 + c.gutter)

\* C23: the item spans its configured number of columns, or the column count
\* when that is smaller, and lies within the columns of the grid
C23_SpanClamped ==
  out.done =>
    LET c == out.call
        position == out.positions[c.at]
    IN /\ SpanOf(c, position) = (IF c.span > c.columns THEN c.columns ELSE c.span)
       /\ SpanOf(c, position) <= c.columns
       /\ position.left + position.width <= c.columns * (3 + c.gutter) - c.gutter

\* an item configured to span 3 columns in a grid of 2 spans the 2
C23_Witness ==
  /\ out.done
  /\ out.call.span = 3
  /\ out.call.columns = 2
  /\ out.call.gutter = 1
  /\ out.positions[out.call.at].left = 0
  /\ out.positions[out.call.at].width = 7

\* C24: the column count is an integer, at least minCols, and more than
\* minCols only if that many whole columns (item width + gutter) fit
C24_AtLeastMinCols ==
  out.done =>
    LET c == out.call
    IN /\ out.gridSize \in Int
       /\ out.gridSize >= c.minCols
       /\ out.gridSize > c.minCols =>
            out.gridSize * (c.columnWidth + c.gutter) <= c.width

\* a container in which one column fits and a floor of 2: two columns
C24_Witness ==
  /\ out.done
  /\ out.call.width = 4
  /\ out.call.columnWidth = 3
  /\ out.call.gutter = 1
  /\ out.call.minCols = 2
  /\ out.gridSize = 2

\* the pass before the step and the pass after it place the same list with
\* the same measurements under the same configuration and width
SameLayoutInputs ==
  /\ out.mode = "layout" /\ out'.mode = "layout"
  /\ out'.placed = out.placed
  /\ \A i \in Range(out.placed) :
       /\ Has(state.measurementStore, i) /\ Has(state'.measurementStore, i)
       /\ Get(state.measurementStore, i) = Get(state'.measurementStore, i)
  /\ state'.width = state.width
  /\ state'.gutter = state.gutter
  /\ props' = props

C26_FinalScrollPositionKept ==
  /\ [](phase = "mounted" /\ props.scrollContainer /\ ~timers.scroll =>
          state.scrollTop = dom.scrollPos)
  /\ [][UpdateScrollPosition => state'.scrollTop = dom.scrollPos /\ ~timers'.scroll]_vars

\* the scroll container has been scrolled and the handler has run
C26_Witness ==
  /\ phase = "mounted"
  /\ props.scrollContainer
  /\ ~timers.scroll
  /\ dom.scrollPos = 9
  /\ state.scrollTop = 9

\* the item is at index idx, from 0, of the list
IsAtIndex(items, idx, item) == idx + 1 \in DOMAIN items /\ items[idx + 1] = item

\* C27: in a full-layout pass the itemIdx passed to renderItem with an item,
\* rendered at its position or off-screen for measurement, is the index of
\* that item in props.items
C27_ItemIdxIsListIndex ==
  out.mode = "layout" =>
    /\ \A k \in 1..Len(out.placed) :
         out.placed[k] \in out.rendered =>
           IsAtIndex(props.items, ItemIdx(out.placed, k), out.placed[k])
    /\ \A i \in 1..Len(out.measuring) :
         IsAtIndex(props.items, MeasurementIndex(out.placed, i), out.measuring[i])

\* C28: with an empty item list and a known width the pass is a full-layout
\* pass of height 0 that places, renders and measures no item, maxHeight is
\* 0, and the controller has no pending measurements
C28_EmptyListEmptyLayout ==
  phase = "mounted" /\ props.items = <<>> /\ state.width # Undefined =>
    /\ out.mode = "layout"
    /\ out.height = 0
    /\ inst.maxHeight = 0
    /\ out.placed = <<>>
    /\ out.positions = <<>>
    /\ out.rendered = {}
    /\ out.measuring = <<>>
    /\ state.items = <<>>
    /\ ~state.hasPendingMeasurements

\* a grid that had placed two items is given the empty list
C28_Witness ==
  /\ phase = "mounted"
  /\ props.items = <<>>
  /\ state.width # Undefined
  /\ out.mode = "layout"
  /\ out.height = 0
  /\ DOMAIN inst.positionStore = Items
  /\ pendingFetch = <<>>

\* C29: while the component is mounted and has resolved a scroll element, a
\* scroll event dispatched on that element leads to exactly one call of
\* onScroll, the onScroll of the props at that time, with that event; and
\* whenever the scrollContainer prop resolves to an element, that element is
\* the one subscribed to
C29_OneCallPerScrollEvent ==
  /\ [][\A el \in Elements, event \in Events :
         DispatchScroll(el, event) /\ phase = "mounted" /\ inst.scrollContainer = el =>
           out'.calls = <<[onScroll |-> props.onScroll, event |-> event]>>]_vars
  /\ [](phase = "mounted" /\ props.scrollContainer # NoElement =>
          /\ inst.scrollContainer = props.scrollContainer
          /\ dom.listeners[props.scrollContainer] = 1)

\* the scroll element was replaced and onScroll with it: an event on the new
\* element has led to one call of the new onScroll
C29_Witness ==
  /\ phase = "mounted"
  /\ props = [onScroll |-> 2, scrollContainer |-> 2]
  /\ inst.scrollContainer = 2
  /\ dom.listeners = [el \in Elements |-> IF el = 2 THEN 1 ELSE 0]
  /\ out = [target |-> 2, event |-> 1, calls |-> <<[onScroll |-> 2, event |-> 1]>>]

\* C31: the update in which state.width changes from one known value to
\* another lays out no item: the measurements taken at the width before it
\* are discarded before a layout pass uses the new width
C31_NoLayoutFromPreviousWidth ==
  [][KnownWidthChange /\ out'.mode = "layout" => out'.placed = <<>>]_vars

\* C32: a call of fetchMore ends with isFetching set, with one call of
\* loadItems since isFetching was last clear, made with `from` equal to the
\* length of props.items, and with no further call of fetchMore queued
C32_FetchMoreSetsFlagAndLoadsOnce ==
  [][pendingFetch # <<>> =>
       /\ state'.isFetching
       /\ out'.outstanding = 1
       /\ out'.lastFrom = Len(props'.items)
       /\ pendingFetch' = <<>>]_vars

\* loadItems was called with from = 2 for a list of two items
C32_Witness ==
  /\ phase = "mounted"
  /\ state.isFetching
  /\ out.outstanding = 1
  /\ out.lastFrom = 2
  /\ Len(props.items) = 2

\* C33: for the item list and the store the controller holds, the flag that
\* getDerivedStateFromProps computes equals the flag that componentDidUpdate
\* computes
C33_PendingFlagsAgree ==
  HasPendingDerived(props.items, state.measurementStore)
    = HasPendingMeasurements(props.items, state.measurementStore)

\* C34: state.items, as getDerivedStateFromProps leaves it, has the length
\* of props.items and the same entry at every index
C34_StateItemsAreProps ==
  /\ Len(state.items) = Len(props.items)
  /\ \A i \in 1..Len(props.items) : state.items[i] = props.items[i]

\* the host has replaced a list that held item 1, which was placed, by the
\* list of item 2 alone
C34_Witness ==
  /\ phase = "mounted"
  /\ props.items = <<2>>
  /\ state.items = <<2>>
  /\ Has(inst.positionStore, 1)

\* the items of the list that hold a measurement when the pass of a step renders
MeasuredAtRender == { i \in NonNull(props'.items) : Has(state.measurementStore, i) }

\* C35 as stated: in a full-layout pass an item is rendered at a position iff
\* it has a measurement, is rendered for measurement only if it has none, and
\* the two sets are disjoint
C35_RenderedIffMeasured ==
  [][LayoutPassStep =>
       /\ out'.rendered = MeasuredAtRender
       /\ Range(out'.measuring) \cap MeasuredAtRender = {}
       /\ out'.rendered \cap Range(out'.measuring) = {}]_vars

\* C35: in a full-layout pass an item is given a computed position iff it has
\* a measurement, the items rendered at their positions are among these (the
\* virtualizer leaves out those outside the buffered viewport), an item is
\* rendered for measurement only if it has none, and the two sets are disjoint
C35_PlacedIffMeasured ==
  [][LayoutPassStep =>
       /\ Range(out'.placed) = MeasuredAtRender
       /\ out'.rendered \subseteq Range(out'.placed)
       /\ Range(out'.measuring) \subseteq NonNull(props'.items) \ MeasuredAtRender
       /\ Range(out'.placed) \cap Range(out'.measuring) = {}]_vars

\* a pass over a list of two that placed and rendered the measured item and
\* rendered the other for measurement
C35_Witness ==
  /\ out.mode = "layout"
  /\ Len(props.items) = 2
  /\ Len(out.placed) = 1
  /\ out.rendered = Range(out.placed)
  /\ Len(out.measuring) = 1

\* a pass that placed two items and rendered one of them
C35_WitnessVirtualized ==
  /\ out.mode = "layout"
  /\ Len(out.placed) = 2
  /\ Cardinality(out.rendered) = 1

\* the elements on which handleScroll is registered
Subscribed == { el \in Elements : dom.listeners[el] > 0 }

\* C36: handleScroll is registered on at most one element, on the element
\* this.scrollContainer holds if on any, and on none after the unmount
C36_AtMostOneSubscription ==
  /\ Cardinality(Subscribed) <= 1
  /\ Subscribed \subseteq {inst.scrollContainer}
  /\ phase = "unmounted" => Subscribed = {}

\* the handler ran for an event on element 1, was moved to element 2, and the
\* component was unmounted
C36_Witness ==
  /\ phase = "unmounted"
  /\ inst.scrollContainer = 2
  /\ out.target = 1
  /\ Len(out.calls) = 1
  /\ Subscribed = {}

\* C37 as stated: while the component is mounted, handleScroll is registered
\* on the element the scrollContainer prop resolves to and on no other, and
\* on none when the prop resolves to no element
C37_SubscribedToResolvedElement ==
  phase = "mounted" =>
    Subscribed = {GetScrollContainer(props.scrollContainer)} \ {NoElement}

\* the number of options of the Dropdown: the Dropdown.Item and Dropdown.Link
\* elements it renders
OptionCount == Len(RenderedOptions(out.rendered))

\* C38: in a Dropdown of n >= 1 options an UP or DOWN key press leaves the
\* focused index in 0..n-1 and clears the hovered index; from an index in
\* 0..n-1, DOWN moves to the next index, or to 0 from the last, and UP to the
\* index before, or to the last from 0
C38_ArrowKeysCycle ==
  [][(ArrowUp \/ ArrowDown) /\ OptionCount >= 1 =>
       /\ state'.focusedItemIndex \in 0..(OptionCount - 1)
       /\ state'.hoveredItemIndex = NullIndex
       /\ ArrowDown /\ state.focusedItemIndex \in 0..(OptionCount - 1) =>
            state'.focusedItemIndex = (state.focusedItemIndex + 1) % OptionCount
       /\ ArrowUp /\ state.focusedItemIndex \in 0..(OptionCount - 1) =>
            state'.focusedItemIndex =
              (state.focusedItemIndex + OptionCount - 1) % OptionCount]_vars

\* the rendered option whose _index is the focused index
FocusedOptions ==
  { RenderedOptions(out.rendered)[k] : k \in
      { j \in 1..OptionCount :
          RenderedOptions(out.rendered)[j].index = state.focusedItemIndex } }

\* C39: ENTER calls onSelect of the option at the focused index once if the
\* option is not disabled and not at all if it is, and leaves the focused
\* index as it is
C39_EnterSelectsFocused ==
  [][Enter =>
       \A o \in FocusedOptions :
         /\ out'.calls = IF o.disabled THEN <<>> ELSE <<o.option>>
         /\ state'.focusedItemIndex = state.focusedItemIndex]_vars

\* C40: the _index of every rendered option is the position of that option
\* in the list keyboard navigation uses, and the indices are 0, 1, 2, ... in
\* the order of the options
C40_IndexIsOptionPosition ==
  LET allowedChildrenOptions == DropdownRender(props).allowedChildrenOptions
      rendered == RenderedOptions(out.rendered)
      IsOptionAt(i) == allowedChildrenOptions[i + 1].type \in DropdownItemDisplayNames
      positions == SelectSeq([k \in 1..Len(allowedChildrenOptions) |-> k - 1], IsOptionAt)
  IN /\ Len(rendered) = Len(positions)
     /\ \A k \in 1..Len(rendered) :
          /\ rendered[k].index = positions[k]
          /\ rendered[k].index = k - 1
          /\ rendered[k].option = allowedChildrenOptions[positions[k] + 1].option

====
